---- MODULE Spec2Model ----
(***************************************************************************)
(* Model of the download orchestration of osu-collector-dl:                *)
(* DownloadManager.bulkDownload / _downloadFile (src/src/core/             *)
(* DownloadManager.ts) running on a p-queue with a concurrency cap, an     *)
(* interval cap, pause()/start() and an "idle" event.                      *)
(*                                                                         *)
(* One action is one callback of the event loop: the synchronous body of   *)
(* bulkDownload, the continuation of an awaited fetch, the continuation of *)
(* the body stream, the cool-down timer, the queue's interval timer.  The  *)
(* code that runs inside a callback is written as functions over a record  *)
(* of the whole state (State), applied in the order of the source.         *)
(***************************************************************************)
EXTENDS Integers, Sequences, FiniteSets, TLC

(* ---- bounds ---- *)
NumTargets == 2
MaxConcurrency == 2
MaxIntervalCap == 2
Max429 == 1
MaxEntries == 2
MaxIndexRuns == 2
MaxNameLen == 3
MaxUrls == 11
MaxRate == 2

Targets == 1..NumTargets

(* What the fetch primitive can answer to one attempt: status 429, another
   non-200 status, a transport error, 200 without a body, 200 with a body
   and a content-disposition that does not percent-decode, 200 with a body
   and a usable header.  "bodyerr" is a body stream that throws. *)
ResponseKinds == {"s429", "status", "neterr", "nobody", "badname", "ok200"}
AllAnswers == ResponseKinds \cup {"bodyerr"}

(* The mirrors' behaviour towards one target: the answers it can get.  A run
   either constrains no target, or it constrains the answers of one target,
   the watched one, to one of AnswerSets and records the attempts of that
   target.  The other targets can get every answer, which includes the
   constrained behaviours; the watched target is the first or the last
   one submitted. *)
AnswerSets ==
  {{"status"}, {"s429", "status"}, {"s429", "ok200"}, {"badname"}}

VARIABLES
  pc,                       \* "ready" before bulkDownload(), "started" after,
                            \*   "crashed" after an uncaught exception
  parallel,                 \* Manager.config.parallel
  concurrency,              \* Manager.config.concurrency
  intervalCap,              \* Manager.config.intervalCap
  existingBeatmaps,         \* keys of this.existingBeatmaps: digit strings
  answers,                  \* per target, what the mirrors answer for it
  limit429,                 \* how many 429s the mirrors answer in the run
  watched,                  \* the targets whose attempts the history records:
                            \*   none or one
  tasks,                    \* the functions given to queue.add that have not
                            \*   returned, in add order
  qConcurrency,             \* this.queue.concurrency
  isPaused,                 \* this.queue.isPaused
  intervalCount,            \* p-queue: task starts in the current interval
  timers,                   \* pending setTimeout(() => queue.start(), 60e3)
  testRequest,              \* this.testRequest
  processedCount,           \* let processedCount of bulkDownload
  downloadedBeatMapSetSize, \* this.downloadedBeatMapSetSize
  notDownloadedBeatMapSet,  \* this.notDownloadedBeatMapSet
  endEmits,                 \* history: the "end" emissions, in order, with
                            \*   downloaded + skipped + failed at that moment
  mirrorLog,                \* history: options.alt of each fetch for watched
  fetchesInInterval,        \* history: fetches issued for watched in the
                            \*   current interval (up to intervalCap + 1)
  nRetrying,                \* history: "retrying" signals of watched
  nError,                   \* history: "error" signals per target
  nDownloaded,              \* history: "downloaded" signals per target
  nSkipped,                 \* history: "skipped" signals per target
  n429,                     \* history: 429 responses of the run
  n429Paused,               \* history: those received while the queue was
                            \*   paused, in the runs that watch no target
  songsDirectory,           \* this.songsDirectory
  indexedSongs,             \* this.indexedSongs
  totalSongs,               \* this.totalSongs
  indexingLog,              \* history: the "indexing" signals of the latest
                            \*   setSongsDirectory()
  lastRead,                 \* history: what readdirSync gave that invocation
  indexRuns,                \* history: invocations of setSongsDirectory()
  pathExists,               \* existsSync(this.path)
  songsExists,              \* existsSync(this.songsDirectory)
  recreated,                \* history: mkdirSync(this.path) was called
  header,                   \* the content-disposition of a response
  urlFileName,              \* what getFilename of the url-based manager gave
  fileName,                 \* what _getFilename gave for it
  resolved,                 \* which of the two resolvers have run
  uParallel,                \* url-based manager: this.parallel
  uUrls,                    \* urls.length of the call of bulk_download
  uRate,                    \* config.dl_impulse_rate
  uDir,                     \* existsSync(this.path) of that manager
  uPromise,                 \* the promise bulk_download returned: "none"
                            \*   before the call, "pending", "resolved",
                            \*   "rejected"
  uLoop,                    \* what runs the urls: "none", "all" (Promise.all
                            \*   of every url), "seq" (the for loop),
                            \*   "impulse", "done", "aborted"
  uNext,                    \* urls for which _dl has been called: a prefix
  uRequesting,              \* calls of _dl that await axios.get
  uPiping                   \* calls of _dl that await the file's close

vars == <<pc, parallel, concurrency, intervalCap, existingBeatmaps, answers,
          limit429, watched, tasks,
          qConcurrency, isPaused, intervalCount, timers, testRequest,
          processedCount, downloadedBeatMapSetSize, notDownloadedBeatMapSet,
          endEmits, mirrorLog, fetchesInInterval, nRetrying, nError,
          nDownloaded, nSkipped, n429, n429Paused, songsDirectory, indexedSongs,
          totalSongs, indexingLog, lastRead, indexRuns, pathExists,
          songsExists, recreated, header,
          urlFileName, fileName, resolved, uParallel, uUrls, uRate, uDir,
          uPromise, uLoop, uNext, uRequesting, uPiping>>

\* the url-based manager and one call of its bulk_download
urlVars == <<uParallel, uUrls, uRate, uDir, uPromise, uLoop, uNext,
             uRequesting, uPiping>>

\* the fields of the indexer
indexVars == <<songsDirectory, indexedSongs, totalSongs, indexingLog,
               lastRead, indexRuns>>

\* a response header and the filenames resolved from it
nameVars == <<header, urlFileName, fileName, resolved>>

(* the mutable state as one record, threaded through a callback *)
State ==
  [tasks |-> tasks, qConcurrency |-> qConcurrency, isPaused |-> isPaused,
   intervalCount |-> intervalCount, timers |-> timers,
   testRequest |-> testRequest, processedCount |-> processedCount,
   downloadedBeatMapSetSize |-> downloadedBeatMapSetSize,
   notDownloadedBeatMapSet |-> notDownloadedBeatMapSet,
   endEmits |-> endEmits, mirrorLog |-> mirrorLog,
   fetchesInInterval |-> fetchesInInterval, nRetrying |-> nRetrying,
   nError |-> nError, nDownloaded |-> nDownloaded, nSkipped |-> nSkipped,
   n429 |-> n429, n429Paused |-> n429Paused, pathExists |-> pathExists,
   recreated |-> recreated]

Commit(s) ==
  /\ tasks' = s.tasks
  /\ qConcurrency' = s.qConcurrency
  /\ isPaused' = s.isPaused
  /\ intervalCount' = s.intervalCount
  /\ timers' = s.timers
  /\ testRequest' = s.testRequest
  /\ processedCount' = s.processedCount
  /\ downloadedBeatMapSetSize' = s.downloadedBeatMapSetSize
  /\ notDownloadedBeatMapSet' = s.notDownloadedBeatMapSet
  /\ endEmits' = s.endEmits
  /\ mirrorLog' = s.mirrorLog
  /\ fetchesInInterval' = s.fetchesInInterval
  /\ nRetrying' = s.nRetrying
  /\ nError' = s.nError
  /\ nDownloaded' = s.nDownloaded
  /\ nSkipped' = s.nSkipped
  /\ n429' = s.n429
  /\ n429Paused' = s.n429Paused
  /\ pathExists' = s.pathExists
  /\ recreated' = s.recreated

\* sequencing: the value of v, then F of it
Then(v, F(_)) == CHOOSE r \in {F(x) : x \in {v}} : TRUE

(* ---- strings ---- *)

\* a string is a sequence of characters
Digits == <<"0", "1", "2", "3", "4", "5", "6", "7", "8", "9">>

IsDigit(c) == \E d \in DOMAIN Digits : Digits[d] = c

\* Number.prototype.toString() of a positive integer
RECURSIVE IdToString(_)
IdToString(n) ==
  IF n < 10 THEN <<Digits[n + 1]>>
  ELSE Append(IdToString(n \div 10), Digits[(n % 10) + 1])

\* String.prototype.match(/^(\d+)/): the longest leading run of digits, as
\* <<token>>, or <<>> for null when the name does not start with a digit
RECURSIVE LeadingDigits(_)
LeadingDigits(name) ==
  IF name # <<>> /\ IsDigit(Head(name))
  THEN <<Head(name)>> \o LeadingDigits(Tail(name))
  ELSE <<>>

Match(name) ==
  IF LeadingDigits(name) = <<>> THEN <<>> ELSE <<LeadingDigits(name)>>

\* the characters a filename must not hold: space / < > : " \ | ? *
Forbidden == {" ", "/", "<", ">", ":", "\"", "\\", "|", "?", "*"}

\* String.prototype.replace(/( |\/|<|>|:|"|\\|\||\?|\*)+/g, "")
RECURSIVE StripForbidden(_)
StripForbidden(str) ==
  IF str = <<>> THEN <<>>
  ELSE IF Head(str) \in Forbidden THEN StripForbidden(Tail(str))
  ELSE <<Head(str)>> \o StripForbidden(Tail(str))

\* the character of a %XX escape, for the escapes over the digits 2 and F:
\* %2F is "/" and %22 is the double quote; %F2 and %FF are not UTF-8
EscapeOf(h) ==
  IF h = <<"2", "F">> THEN <<"/">>
  ELSE IF h = <<"2", "2">> THEN <<"\"">>
  ELSE <<>>

\* decodeURIComponent: [ok |-> FALSE] is the URIError it throws on a "%" that
\* is not followed by two hexadecimal digits of a UTF-8 sequence
RECURSIVE DecodeURIComponent(_)
DecodeURIComponent(str) ==
  IF str = <<>> THEN [ok |-> TRUE, s |-> <<>>]
  ELSE IF Head(str) # "%"
  THEN Then(DecodeURIComponent(Tail(str)), LAMBDA r :
            [ok |-> r.ok, s |-> IF r.ok THEN <<Head(str)>> \o r.s ELSE <<>>])
  ELSE IF Len(str) < 3 \/ EscapeOf(SubSeq(str, 2, 3)) = <<>>
  THEN [ok |-> FALSE, s |-> <<>>]
  ELSE Then(DecodeURIComponent(SubSeq(str, 4, Len(str))), LAMBDA r :
            [ok |-> r.ok,
             s |-> IF r.ok THEN EscapeOf(SubSeq(str, 2, 3)) \o r.s ELSE <<>>])

(* ---- configuration ---- *)

\* slip: the parallel toggle is not consulted
ConfiguredConcurrency_IgnoresToggle == concurrency

\* concurrency: Manager.config.parallel ? Manager.config.concurrency : 1
ConfiguredConcurrency == IF parallel THEN concurrency ELSE 1

\* options = { retries: 3, alt: false }
DefaultOptions == [retries |-> 3, alt |-> FALSE]

\* slip: the alternate mirror is chosen one retry too late
RetryOptions_AltTooLate(o) ==
  [retries |-> o.retries - 1, alt |-> (o.retries = 0)]

\* { alt: options.retries === 1, retries: options.retries - 1 }
RetryOptions(o) == [retries |-> o.retries - 1, alt |-> (o.retries = 1)]

\* Manager.collection.beatMapSets.size
totalCount == NumTargets

(* ---- the queue ---- *)

Active == {"fetching", "streaming"}

\* p-queue pending: tasks started and not settled
Pending(s) == Cardinality({i \in DOMAIN s.tasks : s.tasks[i].st \in Active})

Queued(s) == {i \in DOMAIN s.tasks : s.tasks[i].st = "queued"}

\* slip: the task added last is dequeued first
QueueHead_Lifo(s) == CHOOSE i \in Queued(s) : \A j \in Queued(s) : i >= j

\* FIFO: the task added first is dequeued first
QueueHead(s) == CHOOSE i \in Queued(s) : \A j \in Queued(s) : i <= j

\* this.emit("end", this.notDownloadedBeatMapSet)
EmitEnd(s, by) ==
  [s EXCEPT !.endEmits = Append(@,
     [by |-> by,
      terminal |-> s.downloadedBeatMapSetSize
                     + Len(s.notDownloadedBeatMapSet)])]

\* _checkIfDirectoryExists
CheckIfDirectoryExists(s) ==
  s.pathExists /\ (songsDirectory = "" \/ songsExists)

\* slip: the directory is looked at but not created
Revalidate_NoMkdir(s) == s

\* if (!this._checkIfDirectoryExists()) { ...; if (!existsSync(this.path))
\* mkdirSync(this.path) }
Revalidate(s) ==
  IF ~CheckIfDirectoryExists(s) /\ ~s.pathExists
  THEN [s EXCEPT !.pathExists = TRUE, !.recreated = TRUE]
  ELSE s

\* _downloadFile up to its await: emit "downloading", re-validate the
\* directory, issue the fetch
DownloadFileStart(s, i, o) ==
  LET t == s.tasks[i].t IN
  [Revalidate(s) EXCEPT !.tasks[i].st = "fetching",
            !.tasks[i].retries = o.retries,
            !.tasks[i].alt = o.alt,
            !.mirrorLog = IF t \in watched THEN Append(@, o.alt) ELSE @,
            !.fetchesInInterval =
               IF t \in watched /\ @ <= intervalCap THEN @ + 1 ELSE @]

\* p-queue job: pending++, intervalCount++, then the added function runs
RunTask(s, i) ==
  DownloadFileStart([s EXCEPT !.intervalCount = @ + 1], i, DefaultOptions)

CanStart(s) ==
  /\ Queued(s) # {}
  /\ ~s.isPaused
  /\ s.intervalCount < intervalCap
  /\ Pending(s) < s.qConcurrency

\* p-queue tryToStartAnother; an empty queue with nothing pending is "idle",
\* whose listener emits "end"
TryToStartAnother(s) ==
  IF Queued(s) = {}
  THEN IF Pending(s) = 0 THEN EmitEnd(s, "idle") ELSE s
  ELSE IF CanStart(s) THEN RunTask(s, QueueHead(s)) ELSE s

\* p-queue processQueue: while (tryToStartAnother()) {}
RECURSIVE ProcessQueue(_)
ProcessQueue(s) ==
  IF CanStart(s)
  THEN Then(RunTask(s, QueueHead(s)), LAMBDA x : ProcessQueue(x))
  ELSE TryToStartAnother(s)

RemoveAt(q, i) == SubSeq(q, 1, i - 1) \o SubSeq(q, i + 1, Len(q))

\* this.queue.add(fn)
QueueAdd(s, t, wrap) ==
  TryToStartAnother(
    [s EXCEPT !.tasks = Append(@,
       [t |-> t, wrap |-> wrap, st |-> "queued",
        retries |-> DefaultOptions.retries, alt |-> DefaultOptions.alt])])

\* set concurrency(n): store it, then processQueue()
SetConcurrency(s, c) == ProcessQueue([s EXCEPT !.qConcurrency = c])

\* queue.start(): nothing unless paused; else unpause and processQueue()
QueueStart(s) ==
  IF ~s.isPaused THEN s ELSE ProcessQueue([s EXCEPT !.isPaused = FALSE])

\* p-queue interval timer: a new interval begins, the start count is reset,
\* and waiting tasks are started
OnInterval(s) ==
  Then([s EXCEPT !.intervalCount = 0, !.fetchesInInterval = 0],
       LAMBDA x : IF Queued(x) # {} THEN ProcessQueue(x) ELSE x)

(* ---- the filename resolvers ---- *)

\* let fileName = "Untitled.osz"
DefaultFileName ==
  <<"U", "n", "t", "i", "t", "l", "e", "d", ".", "o", "s", "z">>

\* the characters of a filename token: a letter, two characters to strip,
\* and the characters of the escapes %2F and %22
TokenChars == {"x", "/", " ", "%", "2", "F"}

Tokens == UNION {[1..n -> TokenChars] : n \in 0..MaxNameLen}

\* A content-disposition value: none, one without a filename, or
\* attachment; filename= followed by rest, a bare or a quoted token.
Headers ==
  {[present |-> FALSE, hasName |-> FALSE, rest |-> <<>>],
   [present |-> TRUE, hasName |-> FALSE, rest |-> <<>>]}
    \cup {[present |-> TRUE, hasName |-> TRUE, rest |-> t] : t \in Tokens}
    \cup {[present |-> TRUE, hasName |-> TRUE,
           rest |-> <<"\"">> \o t \o <<"\"">>] : t \in Tokens}

\* /filename="(.+)"/: from the quote after filename= to the last quote,
\* <<capture>> or <<>> for null
QuotedCapture(h) ==
  LET quotes == {k \in DOMAIN h.rest : k >= 3 /\ h.rest[k] = "\""}
      last == CHOOSE k \in quotes : \A j \in quotes : j <= k
  IN IF h.hasName /\ h.rest # <<>> /\ h.rest[1] = "\"" /\ quotes # {}
     THEN <<SubSeq(h.rest, 2, last - 1)>>
     ELSE <<>>

\* /filename=([^;]+)/: the characters after filename= up to a ";"
BareCapture(h) ==
  LET stops == {k \in DOMAIN h.rest : h.rest[k] = ";"}
      end == IF stops = {} THEN Len(h.rest)
             ELSE (CHOOSE k \in stops : \A j \in stops : k <= j) - 1
  IN IF h.hasName /\ end >= 1 THEN <<SubSeq(h.rest, 1, end)>> ELSE <<>>

\* getFilename of the url-based manager: the token is stripped, then decoded
getFilename(h) ==
  IF QuotedCapture(h) = <<>>
  THEN [threw |-> FALSE, name |-> DefaultFileName]
  ELSE Then(DecodeURIComponent(StripForbidden(QuotedCapture(h)[1])),
            LAMBDA r : [threw |-> ~r.ok, name |-> r.s])

\* Util.replaceForbiddenChars: strips the forbidden characters
ReplaceForbiddenChars(str) == StripForbidden(str)

\* _getFilename: the token is decoded, then stripped
GetFilename(h) ==
  IF ~h.present \/ BareCapture(h) = <<>>
  THEN [threw |-> FALSE, name |-> DefaultFileName]
  ELSE Then(DecodeURIComponent(BareCapture(h)[1]), LAMBDA r :
            [threw |-> ~r.ok,
             name |-> IF r.ok THEN ReplaceForbiddenChars(r.s) ELSE <<>>])

(* ---- the url-based manager ---- *)

\* urls.length > 10
ImpulseThreshold == 10

\* the calls of _dl in flight and the loop that awaits them
UrlState ==
  [promise |-> uPromise, loop |-> uLoop, next |-> uNext,
   requesting |-> uRequesting, piping |-> uPiping]

Min(a, b) == IF a < b THEN a ELSE b

\* ids.slice(start, end).map((id) => this._dl(id)): _dl is called for the
\* next urls, at most count of them, and each awaits its axios.get
StartUrls(u, count) ==
  [u EXCEPT !.next = @ + Min(count, uUrls - u.next),
            !.requesting = @ + Min(count, uUrls - u.next)]

\* bulk_download after checkDir(): impulse (not awaited: the function
\* returns), Promise.all of every url, or the sequential loop
StartMode(u, par, n, rate) ==
  IF par /\ n > ImpulseThreshold
  THEN [u EXCEPT !.promise = "resolved", !.loop = "impulse",
                 !.next = Min(rate, n), !.requesting = Min(rate, n)]
  ELSE IF n = 0 THEN [u EXCEPT !.promise = "resolved", !.loop = "done"]
  ELSE IF par
  THEN [u EXCEPT !.promise = "pending", !.loop = "all",
                 !.next = n, !.requesting = n]
  ELSE [u EXCEPT !.promise = "pending", !.loop = "seq",
                 !.next = 1, !.requesting = 1]

\* a call of _dl has resolved: the await that waited for it goes on when it
\* was the last one awaited
DlResolved(u) ==
  IF u.loop \notin {"all", "seq", "impulse"} \/ u.requesting + u.piping > 0
  THEN u
  ELSE IF u.loop = "all"
  THEN [u EXCEPT !.promise = "resolved", !.loop = "done"]
  ELSE IF u.loop = "seq"
  THEN IF u.next < uUrls THEN StartUrls(u, 1)
       ELSE [u EXCEPT !.promise = "resolved", !.loop = "done"]
  ELSE IF u.next < uUrls THEN StartUrls(u, uRate)
       ELSE [u EXCEPT !.loop = "done"]

\* a call of _dl has rejected: the await (or Promise.all) that waited for it
\* throws; in bulk_download that rejects the returned promise, in impulse it
\* ends the loop
DlRejected(u) ==
  IF u.loop \in {"all", "seq"}
  THEN [u EXCEPT !.promise = "rejected", !.loop = "aborted"]
  ELSE IF u.loop = "impulse" THEN [u EXCEPT !.loop = "aborted"]
  ELSE u

(* ---- the indexer ---- *)

\* entries of a songs directory: a folder of target 1, a bare id, a name with
\* no leading id, a folder with a longer id
FileNames ==
  {<<"1", " ", "F">>, <<"2">>, <<"N", "o", "1">>, <<"1", "2", " ", "B">>}

\* what readdirSync can give: it throws, or it returns the names of the
\* entries, each once
Listings ==
  {f \in UNION {[1..n -> FileNames] : n \in 0..MaxEntries} :
     \A a, b \in DOMAIN f : a # b => f[a] # f[b]}

DirectoryReads ==
  {[readable |-> FALSE, files |-> <<>>]}
    \cup {[readable |-> TRUE, files |-> f] : f \in Listings}

\* the fields of the indexer as one record
IndexState ==
  [existingBeatmaps |-> existingBeatmaps, indexedSongs |-> indexedSongs,
   totalSongs |-> totalSongs, indexingLog |-> <<>>]

\* the body of for (const file of files)
IndexFile(x, file) ==
  [x EXCEPT !.existingBeatmaps =
               IF Match(file) = <<>> THEN @ ELSE @ \cup {Match(file)[1]},
            !.indexedSongs = @ + 1,
            !.indexingLog = Append(@, <<x.indexedSongs + 1, x.totalSongs>>)]

RECURSIVE IndexFiles(_, _)
IndexFiles(x, files) ==
  IF files = <<>> THEN x
  ELSE Then(IndexFile(x, Head(files)),
            LAMBDA y : IndexFiles(y, Tail(files)))

\* _indexSongsFolder(directory): a directory that cannot be read is logged
\* and nothing else happens
IndexSongsFolder(x, read) ==
  IF ~read.readable THEN x
  ELSE IndexFiles([x EXCEPT !.totalSongs = Len(read.files)], read.files)

(* ---- bulkDownload and _downloadFile ---- *)

\* _isBeatmapExisting: this.existingBeatmaps.has(beatmapId.toString())
IsBeatmapExisting(t) == IdToString(t) \in existingBeatmaps

\* slip: the handler does not look at isPaused
OnRateLimited_Unguarded(s) ==
  Then(SetConcurrency([s EXCEPT !.testRequest = TRUE, !.isPaused = TRUE], 1),
       LAMBDA x : [x EXCEPT !.timers = @ + 1])

\* slip: the queue is paused but no resume is scheduled
OnRateLimited_NoResume(s) ==
  IF ~s.isPaused
  THEN SetConcurrency([s EXCEPT !.testRequest = TRUE, !.isPaused = TRUE], 1)
  ELSE s

\* this.on("rateLimited", ...)
OnRateLimited(s) ==
  IF ~s.isPaused
  THEN Then(SetConcurrency([s EXCEPT !.testRequest = TRUE,
                                      !.isPaused = TRUE], 1),
            LAMBDA x : [x EXCEPT !.timers = @ + 1])
  ELSE s

\* catch (e): retry with one fewer retry, or "error" and the failed list
OnCatch(s, i) ==
  LET t == s.tasks[i].t
      o == [retries |-> s.tasks[i].retries, alt |-> s.tasks[i].alt]
  IN IF o.retries > 0
     THEN DownloadFileStart(
            [s EXCEPT !.nRetrying = IF t \in watched THEN @ + 1 ELSE @], i,
            RetryOptions(o))
     ELSE [s EXCEPT !.nError[t] = @ + 1,
                    !.notDownloadedBeatMapSet = Append(@, t),
                    !.tasks[i].st = "returned"]

\* slip: the return after the re-submission is missing and the attempt goes
\* on as a failed one
OnRateLimitedResponse_NoReturn(s, i) ==
  Then(OnRateLimited(s), LAMBDA x :
  Then(QueueAdd(x, x.tasks[i].t, FALSE), LAMBDA y : OnCatch(y, i)))

\* if (response.status === 429) { emit("rateLimited"); queue.add(...); return }
OnRateLimitedResponse(s, i) ==
  Then(OnRateLimited(s), LAMBDA x :
  Then(QueueAdd(x, x.tasks[i].t, FALSE), LAMBDA y :
       [y EXCEPT !.tasks[i].st = "returned"]))

\* if (this.testRequest) { testRequest = false; queue.concurrency = ... }
ClearTestRequest(s) ==
  IF s.testRequest
  THEN SetConcurrency([s EXCEPT !.testRequest = FALSE], ConfiguredConcurrency)
  ELSE s

\* slip: a filename that does not decode falls back to the default name
OnResponse_FilenameFallsBack(s, i, k) ==
  IF k \in {"neterr", "status"} THEN OnCatch(s, i)
  ELSE IF k = "s429" THEN OnRateLimitedResponse(s, i)
  ELSE Then(ClearTestRequest(s), LAMBDA x :
         IF k = "nobody" THEN OnCatch(x, i)
         ELSE [x EXCEPT !.tasks[i].st = "streaming"])

\* slip: 429 is handled like any other non-200 status
OnResponse_429IsFailure(s, i, k) ==
  IF k \in {"neterr", "status", "s429"} THEN OnCatch(s, i)
  ELSE Then(ClearTestRequest(s), LAMBDA x :
         IF k \in {"badname", "nobody"} THEN OnCatch(x, i)
         ELSE [x EXCEPT !.tasks[i].st = "streaming"])

\* the continuation of await Requestor.fetchDownloadCollection(...)
OnResponse(s, i, k) ==
  IF k \in {"neterr", "status"} THEN OnCatch(s, i)
  ELSE IF k = "s429" THEN OnRateLimitedResponse(s, i)
  ELSE Then(ClearTestRequest(s), LAMBDA x :
         IF k \in {"badname", "nobody"} THEN OnCatch(x, i)
         ELSE [x EXCEPT !.tasks[i].st = "streaming"])

\* file.end(); downloadedBeatMapSetSize++; emit("downloaded")
OnBodyEnd(s, i) ==
  LET t == s.tasks[i].t
  IN [s EXCEPT !.downloadedBeatMapSetSize = @ + 1,
               !.nDownloaded[t] = @ + 1,
               !.tasks[i].st = "returned"]

\* processedCount++; if (processedCount === totalCount) emit("end")
CountProcessed(s) ==
  Then([s EXCEPT !.processedCount = @ + 1], LAMBDA x :
       IF x.processedCount = totalCount THEN EmitEnd(x, "counter") ELSE x)

\* the function given to queue.add has returned: the first submission of a
\* target counts it as processed; then p-queue next(): pending--, and one
\* tryToStartAnother()
TaskReturn(s, i) ==
  Then(IF s.tasks[i].wrap THEN CountProcessed(s) ELSE s, LAMBDA x :
       TryToStartAnother([x EXCEPT !.tasks = RemoveAt(@, i)]))

\* a callback ends either at the next await of the attempt chain or with
\* the task's function returned
Settle(s, i) == IF s.tasks[i].st = "returned" THEN TaskReturn(s, i) ELSE s

\* slip: the return after the skip is missing and the target is submitted too
ForTarget_SkipAlsoSubmits(s, t) ==
  IF IsBeatmapExisting(t)
  THEN Then(CountProcessed([s EXCEPT !.downloadedBeatMapSetSize = @ + 1,
                                     !.nSkipped[t] = @ + 1]),
            LAMBDA x : QueueAdd(x, t, TRUE))
  ELSE QueueAdd(s, t, TRUE)

\* one iteration of beatMapSets.forEach
ForTarget(s, t) ==
  IF IsBeatmapExisting(t)
  THEN CountProcessed([s EXCEPT !.downloadedBeatMapSetSize = @ + 1,
                                !.nSkipped[t] = @ + 1])
  ELSE QueueAdd(s, t, TRUE)

RECURSIVE ForEachFrom(_, _)
ForEachFrom(s, t) ==
  IF t > NumTargets THEN s
  ELSE Then(ForTarget(s, t), LAMBDA x : ForEachFrom(x, t + 1))

(* ---- actions ---- *)

\* no response at hand
NameIdle ==
  /\ header = [present |-> FALSE, hasName |-> FALSE, rest |-> <<>>]
  /\ urlFileName = [threw |-> FALSE, name |-> <<>>]
  /\ fileName = [threw |-> FALSE, name |-> <<>>]
  /\ resolved = {}

\* bulk_download of the url-based manager has not been called
UrlIdle ==
  /\ uParallel = FALSE
  /\ uUrls = 0
  /\ uRate = 1
  /\ uDir = TRUE
  /\ uPromise = "none"
  /\ uLoop = "none"
  /\ uNext = 0
  /\ uRequesting = 0
  /\ uPiping = 0

\* Manager.config.concurrency is read only when parallel is on (line 59):
\* with parallel off, one value above 1 stands for all
ConcurrencyValues ==
  IF parallel THEN 1..MaxConcurrency ELSE {MaxConcurrency}

\* the targets a run can watch: the one submitted first and the one
\* submitted last
WatchedTargets == {1, NumTargets}

ManagerInit ==
  /\ pc = "ready"
  /\ parallel \in BOOLEAN
  /\ concurrency \in ConcurrencyValues
  /\ intervalCap \in 1..MaxIntervalCap
  /\ existingBeatmaps \in SUBSET {IdToString(t) : t \in Targets}
  /\ watched \in {{}} \cup {{t} : t \in WatchedTargets}
  /\ \E A \in AnswerSets :
       answers = [t \in Targets |-> IF t \in watched THEN A ELSE AllAnswers]
  /\ tasks = <<>>
  /\ qConcurrency = ConfiguredConcurrency
  /\ isPaused = FALSE
  /\ intervalCount = 0
  /\ timers = 0
  /\ testRequest = FALSE
  /\ processedCount = 0
  /\ downloadedBeatMapSetSize = 0
  /\ notDownloadedBeatMapSet = <<>>
  /\ endEmits = <<>>
  /\ mirrorLog = <<>>
  /\ fetchesInInterval = 0
  /\ nRetrying = 0
  /\ nError = [t \in Targets |-> 0]
  /\ nDownloaded = [t \in Targets |-> 0]
  /\ nSkipped = [t \in Targets |-> 0]
  /\ n429 = 0
  /\ n429Paused = 0
  /\ pathExists = TRUE
  /\ songsExists = TRUE
  /\ recreated = FALSE
  /\ limit429 \in {Max429, Max429 + 1}
  /\ songsDirectory = (IF existingBeatmaps = {} THEN "" ELSE "Songs")
  /\ indexedSongs = Cardinality(existingBeatmaps)
  /\ totalSongs = Cardinality(existingBeatmaps)
  /\ indexingLog = <<>>
  /\ lastRead = [readable |-> TRUE, files |-> <<>>]
  /\ indexRuns = 0

Init == ManagerInit /\ NameIdle /\ UrlIdle /\ limit429 = Max429

\* setSongsDirectory(directory), before the download is started
SetSongsDirectory(read) ==
  /\ pc = "ready"
  /\ indexRuns < MaxIndexRuns
  /\ songsDirectory' = "Songs"
  /\ \E x \in {IndexState} : \E r \in {IndexSongsFolder(x, read)} :
       /\ existingBeatmaps' = r.existingBeatmaps
       /\ indexedSongs' = r.indexedSongs
       /\ totalSongs' = r.totalSongs
       /\ indexingLog' = r.indexingLog
  /\ lastRead' = read
  /\ indexRuns' = indexRuns + 1
  /\ Commit(State)
  /\ UNCHANGED <<pc, parallel, concurrency, intervalCap, answers, watched,
                 limit429, songsExists, nameVars, urlVars>>

\* bulkDownload(): the forEach runs to its end before any other callback
BulkDownload ==
  /\ pc = "ready"
  /\ pc' = "started"
  /\ \E s \in {State} : \E r \in {ForEachFrom(s, 1)} : Commit(r)
  /\ UNCHANGED <<parallel, concurrency, intervalCap, existingBeatmaps, answers,
               watched, limit429, indexVars, songsExists,
               nameVars, urlVars>>

\* the fetch of task i answers with k.  createWriteStream (line 184) is
\* called for a 200 with a filename; when the directory has been removed
\* since the fetch was issued the stream fails to open and emits "error",
\* to which _downloadFile has no listener: the attempt itself goes on, and
\* the process goes on or ends with the uncaught exception.
FetchResponds(i, k) ==
  /\ pc = "started"
  /\ tasks[i].st = "fetching"
  /\ k \in answers[tasks[i].t]
  /\ k = "s429" => n429 < limit429
  /\ \E s \in {[State EXCEPT
                  !.n429 = IF k = "s429" THEN @ + 1 ELSE @,
                  !.n429Paused = IF k = "s429" /\ isPaused /\ watched = {}
                                  THEN @ + 1 ELSE @]} :
     \E r \in {Then(OnResponse(s, i, k), LAMBDA x : Settle(x, i))} :
       Commit(r)
  /\ pc' \in (IF k \in {"nobody", "ok200"} /\ ~pathExists
              THEN {"started", "crashed"} ELSE {"started"})
  /\ UNCHANGED <<parallel, concurrency, intervalCap, existingBeatmaps, answers,
               watched, limit429, indexVars, songsExists,
               nameVars, urlVars>>

\* the body stream of task i ends
BodyEnds(i) ==
  /\ pc = "started"
  /\ tasks[i].st = "streaming"
  /\ \E s \in {State} :
     \E r \in {Then(OnBodyEnd(s, i), LAMBDA x : Settle(x, i))} : Commit(r)
  /\ UNCHANGED <<pc, parallel, concurrency, intervalCap, existingBeatmaps, answers,
               watched, limit429, indexVars, songsExists,
               nameVars, urlVars>>

\* the body stream of task i throws
BodyFails(i) ==
  /\ pc = "started"
  /\ tasks[i].st = "streaming"
  /\ "bodyerr" \in answers[tasks[i].t]
  /\ \E s \in {State} :
     \E r \in {Then(OnCatch(s, i), LAMBDA x : Settle(x, i))} : Commit(r)
  /\ UNCHANGED <<pc, parallel, concurrency, intervalCap, existingBeatmaps, answers,
               watched, limit429, indexVars, songsExists,
               nameVars, urlVars>>

\* the 60 s cool-down timer fires
ResumeTimer ==
  /\ pc = "started"
  /\ timers > 0
  /\ \E s \in {[State EXCEPT !.timers = @ - 1]} :
     \E r \in {QueueStart(s)} : Commit(r)
  /\ UNCHANGED <<pc, parallel, concurrency, intervalCap, existingBeatmaps, answers,
               watched, limit429, indexVars, songsExists,
               nameVars, urlVars>>

\* the queue's interval elapses
IntervalTick ==
  /\ pc = "started"
  /\ \E s \in {State} : \E r \in {OnInterval(s)} : Commit(r)
  /\ UNCHANGED <<pc, parallel, concurrency, intervalCap, existingBeatmaps, answers,
               watched, limit429, indexVars, songsExists,
               nameVars, urlVars>>

Next ==
  \/ BulkDownload
  \/ \E i \in DOMAIN tasks : \E k \in ResponseKinds : FetchResponds(i, k)
  \/ \E i \in DOMAIN tasks : BodyEnds(i)
  \/ \E i \in DOMAIN tasks : BodyFails(i)
  \/ ResumeTimer
  \/ IntervalTick

Spec == Init /\ [][Next]_vars

\* The runs of the liveness claims: no target is constrained (the runs with
\* a constrained target are among these).  The fetch primitive
\* always returns, a body stream always ends or throws, and timers fire.
FairInit == Init /\ watched = {}

\* The environment removes the destination directory, or the songs
\* directory.
RemovePath ==
  /\ pc # "crashed"
  /\ pathExists
  /\ Commit([State EXCEPT !.pathExists = FALSE])
  /\ UNCHANGED <<pc, parallel, concurrency, intervalCap, existingBeatmaps,
                 answers, watched, limit429, indexVars, songsExists, nameVars, urlVars>>

RemoveSongs ==
  /\ pc # "crashed"
  /\ songsDirectory # ""
  /\ songsExists
  /\ songsExists' = FALSE
  /\ Commit(State)
  /\ UNCHANGED <<pc, parallel, concurrency, intervalCap, existingBeatmaps,
                 answers, watched, limit429, indexVars, nameVars, urlVars>>

\* The runs in which the directories are interfered with: no target is
\* constrained.
DirInit == Init /\ watched = {}

DirNext == Next \/ RemovePath \/ RemoveSongs

DirSpec == DirInit /\ [][DirNext]_vars

\* The runs of the throttle claims: no target is constrained, and the
\* mirrors answer one 429 more, so that a 429 can arrive during the pause
\* that an earlier one began.
ThrottleInit ==
  /\ ManagerInit
  /\ NameIdle
  /\ UrlIdle
  /\ watched = {}
  /\ limit429 = Max429 + 1

ThrottleSpec == ThrottleInit /\ [][Next]_vars

FairSpec ==
  /\ FairInit
  /\ [][Next]_vars
  /\ WF_vars(BulkDownload)
  /\ WF_vars(\E i \in DOMAIN tasks : \E k \in ResponseKinds : FetchResponds(i, k))
  /\ WF_vars(\E i \in DOMAIN tasks : BodyEnds(i) \/ BodyFails(i))
  /\ WF_vars(ResumeTimer)
  /\ WF_vars(IntervalTick)

\* The indexer: the manager as constructed (nothing indexed, no target
\* constrained), setSongsDirectory() any number of times, then bulkDownload().
IndexInit ==
  /\ Init
  /\ existingBeatmaps = {}
  /\ watched = {}

IndexNext ==
  \/ \E read \in DirectoryReads : SetSongsDirectory(read)
  \/ BulkDownload

IndexSpec == IndexInit /\ [][IndexNext]_vars

\* The filename resolvers: each is applied to a content-disposition value.
ResolveUrlFileName ==
  /\ "url" \notin resolved
  /\ urlFileName' = getFilename(header)
  /\ resolved' = resolved \cup {"url"}
  /\ Commit(State)
  /\ UNCHANGED <<pc, parallel, concurrency, intervalCap, existingBeatmaps,
                 answers, watched, limit429, indexVars,
                 songsExists, header, fileName, urlVars>>

ResolveFileName ==
  /\ "queue" \notin resolved
  /\ fileName' = GetFilename(header)
  /\ resolved' = resolved \cup {"queue"}
  /\ Commit(State)
  /\ UNCHANGED <<pc, parallel, concurrency, intervalCap, existingBeatmaps,
                 answers, watched, limit429, indexVars,
                 songsExists, header, urlFileName, urlVars>>

\* the queue-based manager as constructed, with one configuration
ManagerIdle ==
  /\ ManagerInit
  /\ limit429 = Max429
  /\ ~parallel
  /\ intervalCap = 1
  /\ existingBeatmaps = {}
  /\ watched = {}

NameInit ==
  /\ ManagerIdle
  /\ UrlIdle
  /\ header \in Headers
  /\ urlFileName = [threw |-> FALSE, name |-> <<>>]
  /\ fileName = [threw |-> FALSE, name |-> <<>>]
  /\ resolved = {}

NameNext == ResolveUrlFileName \/ ResolveFileName

NameSpec == NameInit /\ [][NameNext]_vars

\* The url-based manager: one call of bulk_download, then the calls of _dl
\* go their way.
managerVars ==
  <<pc, parallel, concurrency, intervalCap, existingBeatmaps, answers,
    watched, limit429, indexVars, songsExists, nameVars>>

UrlCommit(u) ==
  /\ uPromise' = u.promise
  /\ uLoop' = u.loop
  /\ uNext' = u.next
  /\ uRequesting' = u.requesting
  /\ uPiping' = u.piping
  /\ Commit(State)
  /\ UNCHANGED managerVars

\* bulk_download(urls): checkDir() creates the directory when it is missing
bulk_download ==
  /\ uPromise = "none"
  /\ uDir' = TRUE
  /\ UrlCommit(StartMode(UrlState, uParallel, uUrls, uRate))
  /\ UNCHANGED <<uParallel, uUrls, uRate>>

\* _dl: axios.get answers and getFilename gives a name: the stream is piped
DlFetchOk ==
  /\ uRequesting > 0
  /\ UrlCommit([UrlState EXCEPT !.requesting = @ - 1, !.piping = @ + 1])
  /\ UNCHANGED <<uParallel, uUrls, uRate, uDir>>

\* _dl: axios.get fails, .catch gives null and _dl returns null
DlFetchFails ==
  /\ uRequesting > 0
  /\ \E u \in {[UrlState EXCEPT !.requesting = @ - 1]} :
     \E r \in {DlResolved(u)} : UrlCommit(r)
  /\ UNCHANGED <<uParallel, uUrls, uRate, uDir>>

\* _dl: axios.get answers and getFilename throws (decodeURIComponent)
DlFilenameThrows ==
  /\ uRequesting > 0
  /\ \E u \in {[UrlState EXCEPT !.requesting = @ - 1]} :
     \E r \in {DlRejected(u)} : UrlCommit(r)
  /\ UNCHANGED <<uParallel, uUrls, uRate, uDir>>

\* _dl: the file emits "close"
DlFileCloses ==
  /\ uPiping > 0
  /\ \E u \in {[UrlState EXCEPT !.piping = @ - 1]} :
     \E r \in {DlResolved(u)} : UrlCommit(r)
  /\ UNCHANGED <<uParallel, uUrls, uRate, uDir>>

\* _dl: the file emits "error"
DlFileErrors ==
  /\ uPiping > 0
  /\ \E u \in {[UrlState EXCEPT !.piping = @ - 1]} :
     \E r \in {DlRejected(u)} : UrlCommit(r)
  /\ UNCHANGED <<uParallel, uUrls, uRate, uDir>>

UrlInit ==
  /\ ManagerIdle
  /\ NameIdle
  /\ uParallel \in BOOLEAN
  /\ uUrls \in 0..MaxUrls
  /\ uRate \in 1..MaxRate
  /\ uDir \in BOOLEAN
  /\ uPromise = "none"
  /\ uLoop = "none"
  /\ uNext = 0
  /\ uRequesting = 0
  /\ uPiping = 0

UrlNext ==
  \/ bulk_download
  \/ DlFetchOk
  \/ DlFetchFails
  \/ DlFilenameThrows
  \/ DlFileCloses
  \/ DlFileErrors

UrlSpec == UrlInit /\ [][UrlNext]_vars

TypeOK ==
  /\ pc \in {"ready", "started", "crashed"}
  /\ \A i \in DOMAIN tasks :
       /\ tasks[i].t \in Targets
       /\ tasks[i].st \in {"queued", "fetching", "streaming"}
       /\ tasks[i].retries \in 0..3
  /\ timers \in 0..1
  /\ uPromise \in {"none", "pending", "resolved", "rejected"}
  /\ uLoop \in {"none", "all", "seq", "impulse", "done", "aborted"}
  /\ uNext \in 0..uUrls
  /\ uRequesting + uPiping <= uNext

(* ---- properties ---- *)

Terminal(t) == nDownloaded[t] + nSkipped[t] + nError[t] >= 1

TasksOf(t) == {i \in DOMAIN tasks : tasks[i].t = t}

\* the attempts of t are over: it was submitted and none of its tasks is
\* queued or running
ChainOver(t) ==
  /\ pc = "started"
  /\ ~IsBeatmapExisting(t)
  /\ TasksOf(t) = {}

InFailed(t) == \E k \in DOMAIN notDownloadedBeatMapSet :
                 notDownloadedBeatMapSet[k] = t

TimesInFailed(t) ==
  Cardinality({k \in DOMAIN notDownloadedBeatMapSet :
                 notDownloadedBeatMapSet[k] = t})

InFlight == Cardinality({i \in DOMAIN tasks : tasks[i].st \in Active})

\* C1 (stated as claimed; the code violates it): "end" is emitted at most
\* once in a run, whichever of the two triggers (processedCount reaching
\* totalCount, the queue's "idle") emits it.
C1_EndEmittedOnce == Len(endEmits) <= 1

\* C2 (stated as claimed; the code violates it): at every emission of "end"
\* all targets are terminal: downloaded + skipped + failed = total.
C2_EndOnlyWhenAllTerminal ==
  \A k \in DOMAIN endEmits : endEmits[k].terminal = NumTargets

\* C3: no target reaches more than one terminal state: at most one of the
\* signals downloaded / skipped / error per target, at most one entry in the
\* failed list, and the downloaded-or-skipped count and the failed list count
\* each target at most once.
C3_OneTerminalState ==
  /\ \A t \in Targets :
       /\ nDownloaded[t] + nSkipped[t] + nError[t] <= 1
       /\ TimesInFailed(t) <= 1
       /\ TimesInFailed(t) = nError[t]
  /\ downloadedBeatMapSetSize =
       Cardinality({t \in Targets : nDownloaded[t] + nSkipped[t] = 1})

\* a target failed for good in a re-submitted attempt (more than 3
\* "retrying": the budget was given anew), and another one is downloaded
C3_Witness ==
  /\ \E w \in watched : nError[w] = 1
  /\ nRetrying > 3
  /\ \E t \in Targets : nDownloaded[t] = 1

RunSettled ==
  /\ \A t \in Targets : Terminal(t)
  /\ Len(endEmits) >= 1
  /\ ~isPaused
  /\ tasks = <<>>

\* C4: with a fetch primitive that always returns, finitely many 429s and a
\* cool-down timer that fires, the run settles: every target is terminal,
\* "end" has been emitted, the queue is not paused and every submitted
\* attempt (re-queued ones included) has run to its end.
C4_RunSettles == <>[]RunSettled

\* a rate-limited run that has settled
C4_Witness ==
  /\ RunSettled
  /\ n429 >= 1
  /\ \E t \in Targets : nDownloaded[t] = 1
  /\ \E t \in Targets : nError[t] = 1

\* C5 (stated as claimed; the code violates it): at most 4 attempts of a
\* target end in an attempt failure, and the attempt that exhausts the budget
\* is made against the alternate mirror.
C5_AtMostFourFailures ==
  \A w \in watched :
    /\ nRetrying + nError[w] <= 4
    /\ nError[w] >= 1 => mirrorLog[Len(mirrorLog)]

\* C6 (stated as claimed; the code violates it): the attempt re-submitted on
\* a 429 carries the retriesRemaining and useAlternateSource of the attempt
\* that was rate-limited.
C6_RequeueKeepsAttemptState ==
  [][n429' = n429 + 1 =>
       \E i \in DOMAIN tasks :
         /\ tasks[i].st = "fetching"
         /\ tasks' = Append(RemoveAt(tasks, i),
                            [t |-> tasks[i].t, wrap |-> FALSE, st |-> "queued",
                             retries |-> tasks[i].retries,
                             alt |-> tasks[i].alt])]_vars

IsPrefix(p, q) == Len(p) <= Len(q) /\ \A k \in DOMAIN p : p[k] = q[k]

\* C7: a target whose every attempt fails with a non-200, non-429 status
\* makes four attempts, three against the primary mirror and the fourth
\* against the alternate one, emits 3 "retrying" and then 1 "error", and ends
\* in the failed list.
C7_AlwaysFailingTarget ==
  \A w \in watched :
    (answers[w] = {"status"} /\ ~IsBeatmapExisting(w)) =>
      /\ IsPrefix(mirrorLog, <<FALSE, FALSE, FALSE, TRUE>>)
      /\ nDownloaded[w] = 0
      /\ nRetrying = (IF mirrorLog = <<>> THEN 0 ELSE Len(mirrorLog) - 1)
      /\ nError[w] = 1 <=> ChainOver(w)
      /\ nError[w] >= 1 =>
           /\ nError[w] = 1
           /\ nRetrying = 3
           /\ mirrorLog = <<FALSE, FALSE, FALSE, TRUE>>
           /\ InFailed(w)

C7_Witness ==
  /\ \E w \in watched : answers[w] = {"status"} /\ nError[w] = 1
  /\ Len(mirrorLog) = 4

\* What C8 promises of the watched target w, once its answers are of the
\* kind the claim is about.
NeverAFailure(w) ==
  /\ nRetrying = 0
  /\ nError[w] = 0
  /\ ~InFailed(w)
  /\ nDownloaded[w] <= 1
  /\ ChainOver(w) => nDownloaded[w] = 1

\* C8 (stated as claimed; violated): a target answered by 429s and then a
\* 200 with a readable body emits no "retrying" and no "error", one
\* "downloaded", and is not in the failed list.
C8_Original ==
  \A w \in watched :
    (answers[w] \subseteq {"s429", "ok200", "badname"}
       /\ ~IsBeatmapExisting(w)) => NeverAFailure(w)

\* C8 as amended: the same, for a 200 with a readable body whose
\* content-disposition filename percent-decodes.
C8_RateLimitIsNotFailure ==
  \A w \in watched :
    (answers[w] \subseteq {"s429", "ok200"}
       /\ ~IsBeatmapExisting(w)) => NeverAFailure(w)

\* downloaded at the second attempt or later: after a 429
C8_Witness ==
  /\ \E w \in watched : answers[w] = {"s429", "ok200"} /\ nDownloaded[w] = 1
  /\ Len(mirrorLog) >= 2

\* C9: the attempts in flight never exceed the configured concurrency, which
\* is 1 when the parallel toggle is off.
C9_InFlightWithinConcurrency ==
  InFlight <= (IF parallel THEN concurrency ELSE 1)

\* after a throttle pause and the restore of the concurrency: as many
\* attempts in flight as configured, more than one
C9_Witness ==
  /\ n429 >= 1
  /\ ~isPaused
  /\ ~testRequest
  /\ InFlight >= 2
  /\ InFlight = qConcurrency

\* C11: a target whose id is in the index gets one "skipped" signal in
\* bulkDownload and nothing else: no task of it is ever in the queue, so it
\* never emits "downloading" and never causes a fetch; a target whose id is
\* not in the index is submitted (a task of it is in the queue until it is
\* downloaded or failed for good) and never emits "skipped".
C11_SkippedNeverSubmitted ==
  \A t \in Targets :
    IF IsBeatmapExisting(t)
    THEN /\ nSkipped[t] = (IF pc = "started" THEN 1 ELSE 0)
         /\ TasksOf(t) = {}
         /\ nDownloaded[t] = 0
         /\ nError[t] = 0
    ELSE /\ nSkipped[t] = 0
         /\ pc = "started" =>
              (TasksOf(t) # {} \/ nDownloaded[t] + nError[t] = 1)

\* one target skipped, another one submitted and downloaded
C11_Witness ==
  /\ \E t \in Targets : IsBeatmapExisting(t) /\ nSkipped[t] = 1
  /\ \E t \in Targets : ~IsBeatmapExisting(t) /\ nDownloaded[t] = 1

\* the responses the watched target has received: its fetches, less the one
\* still awaited
ResponsesOf(w) ==
  Len(mirrorLog)
    - Cardinality({i \in TasksOf(w) : tasks[i].st = "fetching"})

TokensOf(files) ==
  {Match(files[k])[1] : k \in {j \in DOMAIN files : Match(files[j]) # <<>>}}

\* C13 (stated as claimed; the code violates it): after every invocation of
\* the indexer on a readable directory with n entries the index is exactly
\* the set of the leading numeric tokens of its entries, the total is n, and
\* the k-th "indexing" signal of the invocation is (k, n), for k = 1..n.
C13_IndexOfEveryInvocation ==
  (indexRuns >= 1 /\ lastRead.readable) =>
    /\ existingBeatmaps = TokensOf(lastRead.files)
    /\ totalSongs = Len(lastRead.files)
    /\ indexingLog =
         [k \in 1..Len(lastRead.files) |-> <<k, Len(lastRead.files)>>]

\* C14 (stated as claimed; the code violates it): after an invocation of the
\* indexer on a directory that cannot be read there is no "indexing" signal
\* and the index is empty, and the bulkDownload that follows skips no target
\* and submits every target.
C14_UnreadableLeavesIndexEmpty ==
  (indexRuns >= 1 /\ ~lastRead.readable) =>
    /\ indexingLog = <<>>
    /\ existingBeatmaps = {}
    /\ pc = "started" =>
         \A t \in Targets : nSkipped[t] = 0 /\ TasksOf(t) # {}

Sanitized(r) == r.threw \/ \A k \in DOMAIN r.name : r.name[k] \notin Forbidden

\* C15 (stated as claimed; the code violates it): a filename that a resolver
\* has produced holds no path separator and no reserved character, whatever
\* the content-disposition value.
C15_NoReservedCharacter ==
  /\ "url" \in resolved => Sanitized(urlFileName)
  /\ "queue" \in resolved => Sanitized(fileName)

\* C16: a 429 received while the queue is not paused pauses it, sets the
\* live concurrency to 1, sets testRequest and schedules one resume; a 429
\* received while the queue is paused changes none of these and schedules
\* nothing; and the queue is paused exactly when one resume timer is
\* pending.
C16_OnePauseOneResume ==
  /\ [](isPaused <=> timers = 1)
  /\ [](timers \in {0, 1})
  /\ [][n429' = n429 + 1 =>
          IF ~isPaused
          THEN /\ isPaused'
               /\ qConcurrency' = 1
               /\ testRequest'
               /\ timers' = timers + 1
          ELSE /\ isPaused'
               /\ qConcurrency' = qConcurrency
               /\ testRequest' = testRequest
               /\ timers' = timers]_vars

\* a 429 was received during a pause, and the queue is paused
C16_Witness ==
  /\ n429Paused >= 1
  /\ isPaused
  /\ timers = 1

\* C17 (stated as claimed; the code violates it): testRequest is cleared,
\* and the live concurrency leaves 1, only in a step in which an attempt
\* completes successfully while the queue is not paused.
C17_ProbeEndsOnSuccessAfterResume ==
  [][(testRequest /\ (~testRequest' \/ qConcurrency' # 1)) =>
       /\ ~isPaused
       /\ \E t \in Targets : nDownloaded'[t] = nDownloaded[t] + 1]_vars

\* the place in the queue's add order of the task of t that waits to start
WaitingAt(t) == {i \in DOMAIN tasks : tasks[i].t = t /\ tasks[i].st = "queued"}

\* C18: attempts start in submission order.  The tasks are held in add
\* order, the first submissions in catalog order and a re-submission after
\* everything that was queued before it; a step that starts the waiting task
\* of a target leaves no task waiting that was added before it.
C18_StartsInSubmissionOrder ==
  /\ [](\A i, j \in DOMAIN tasks :
          (i < j /\ tasks[i].wrap /\ tasks[j].wrap) =>
            tasks[i].t < tasks[j].t)
  /\ [][n429' = n429 + 1 =>
          /\ tasks' # <<>>
          /\ ~tasks'[Len(tasks')].wrap
          /\ \A u \in Targets : \A i \in WaitingAt(u) :
               \E j \in DOMAIN tasks' :
                 j < Len(tasks') /\ tasks'[j] = tasks[i]]_vars
  /\ [][\A t \in Targets :
          (WaitingAt(t) # {} /\ WaitingAt(t)' = {}) =>
            \A u \in Targets : \A i \in WaitingAt(t) : \A j \in WaitingAt(u) :
              j < i => WaitingAt(u)' = {}]_vars

\* a re-submitted attempt has started after the attempts queued before it,
\* and a target submitted later has completed before one submitted earlier
C18_Witness ==
  /\ \E i \in DOMAIN tasks : ~tasks[i].wrap /\ tasks[i].st = "fetching"
  /\ \E t, u \in Targets : t < u /\ nDownloaded[u] = 1 /\ TasksOf(t) # {}
                            /\ ~Terminal(t)

\* a fetch is issued in the step: a task awaits a fetch that it did not
\* await before
FetchIssued ==
  \E j \in DOMAIN tasks' :
    /\ tasks'[j].st = "fetching"
    /\ \A i \in DOMAIN tasks : tasks[i] # tasks'[j]

\* C19: whenever a fetch is issued (first attempt, retry or re-submitted
\* attempt) the destination directory exists, also when the environment has
\* removed it before; and the removal is no attempt failure: the step that
\* removes a directory emits no "retrying" and no "error" and leaves every
\* task as it is.
C19_DirectoryExistsAtFetch ==
  /\ [][FetchIssued => pathExists']_vars
  /\ [][(pathExists /\ ~pathExists') =>
          (tasks' = tasks /\ nError' = nError
             /\ notDownloadedBeatMapSet' = notDownloadedBeatMapSet)]_vars

\* the directory was removed and a retry has recreated it: the task awaits
\* the fetch of its second attempt or a later one
C19_Witness ==
  /\ pathExists
  /\ recreated
  /\ \E i \in DOMAIN tasks : tasks[i].st = "fetching" /\ tasks[i].retries < 3

\* C20 (stated as claimed; the code violates it): when the promise that
\* bulk_download returned has settled, _dl has been called for every url of
\* the input and no call of _dl is still requesting or piping.
C20_SettlesAfterEveryUrl ==
  uPromise \in {"resolved", "rejected"} =>
    (uNext = uUrls /\ uRequesting = 0 /\ uPiping = 0)

\* C10 (stated as claimed; the code violates it): no more than intervalCap
\* fetches are issued within one interval of the queue; here, the fetches
\* for the watched target alone.
C10_FetchesWithinIntervalCap == fetchesInInterval <= intervalCap

====
